---- MODULE Spec2Model ----
(***************************************************************************)
(* Model of newspaper/article.py: the Article download/parse lifecycle.    *)
(*                                                                         *)
(* Python strings are sequences of one-character strings; a Python value   *)
(* whose type matters (None, str, bytes) is a record [t, v].  Every method *)
(* of Article is an operator from the receiver (a record of its fields)    *)
(* and the arguments to [self, ret, calls]: the receiver after the call,   *)
(* what the call returned or raised, and the collaborator calls it made.   *)
(***************************************************************************)
EXTENDS Integers, Sequences, FiniteSets, TLC

VARIABLES article, other, ctor, target, op, arg, net, ret, calls

vars == <<article, other, ctor, target, op, arg, net, ret, calls>>

(***************************************************************************)
(* Bounds of the model.                                                    *)
(***************************************************************************)
\* longest str body handed to download/set_html or returned by the fetcher
MaxLen == 3

(***************************************************************************)
(* Values.                                                                 *)
(***************************************************************************)
\* "<" stands for markup, "x" for a character of running text
Char == {"<", "x"}

SeqsUpTo(S, n) == UNION {[1..k -> S] : k \in 0..n}

NoneVal == [t |-> "NoneType", v |-> <<>>]
Str(s) == [t |-> "str", v |-> s]
Bytes(b) == [t |-> "bytes", v |-> b]

\* Python truthiness of None, str and bytes
Truthy(val) == val.t # "NoneType" /\ val.v # <<>>

Range(s) == {s[i] : i \in 1..Len(s)}

Min(a, b) == IF a <= b THEN a ELSE b

\* s[:n]
Prefix(s, n) == SubSeq(s, 1, Min(n, Len(s)))

\* config.MAX_TEXT, scaled down
MAX_TEXT == 1

NOT_STARTED == 0
FAILED_RESPONSE == 1
SUCCESS == 2

\* the attribute holds None
None == "None"

(***************************************************************************)
(* Collaborators: modules of the package that article.py calls.  Each is a *)
(* deterministic function of its argument.                                 *)
(***************************************************************************)
\* urls.get_scheme: the scheme of "scheme://domain/path", None without one
GetScheme(url) == IF Len(url) >= 2 /\ url[2] = "://" THEN url[1] ELSE None

\* urls.get_domain: the network location, empty when the url has no "//"
GetDomain(url) == IF Len(url) >= 3 /\ url[2] = "://" THEN <<url[3]>> ELSE <<>>

\* urls.prepare_url: the url made absolute against the source url
PrepareUrl(url, source_url) ==
    IF GetScheme(url) # None THEN url ELSE source_url \o url

\* Parser.get_unicode_html: bytes decoded to str
ParserGetUnicodeHtml(b) ==
    [i \in 1..Len(b) |-> IF b[i] = "3c" THEN "<" ELSE "x"]

\* Parser.fromstring: the document tree, None when lxml builds none
\* (here: a body that does not open with markup)
ParserFromstring(html) ==
    IF html = <<>> \/ Head(html) # "<" THEN NoneVal ELSE [t |-> "doc", v |-> html]

RECURSIVE Collapse(_)
Collapse(s) ==
    IF Len(s) <= 1 THEN s
    ELSE IF s[1] = "<" /\ s[2] = "<" THEN Collapse(Tail(s))
    ELSE <<s[1]>> \o Collapse(Tail(s))

\* DocumentCleaner.clean: runs of empty markup collapsed
DocumentCleanerClean(doc) == [t |-> "doc", v |-> Collapse(doc.v)]

FirstText(s) == CHOOSE i \in 1..Len(s) : s[i] = "x" /\ \A j \in 1..(i - 1) : s[j] # "x"

\* ContentExtractor.calculate_best_node: the element around the first text,
\* None for a document without text
CalculateBestNode(doc) ==
    IF \A i \in 1..Len(doc.v) : doc.v[i] # "x" THEN NoneVal
    ELSE [t |-> "node", v |-> SubSeq(doc.v, FirstText(doc.v) - 1, Len(doc.v))]

RECURSIVE DropTrailingMarkup(_)
DropTrailingMarkup(s) ==
    IF s # <<>> /\ s[Len(s)] = "<" THEN DropTrailingMarkup(SubSeq(s, 1, Len(s) - 1))
    ELSE s

\* ContentExtractor.post_cleanup: trailing empty markup dropped
PostCleanup(node) == [t |-> "node", v |-> DropTrailingMarkup(node.v)]

IsText(c) == c = "x"

\* OutputFormatter.get_formatted: (text, html) of the node
GetFormatted(node) == [text |-> SelectSeq(node.v, IsText), article_html |-> node.v]

\* the link_hash attribute does not exist
NoHash == [kind |-> "absent", url |-> <<>>, html |-> <<>>]

NoCandidate == [url |-> <<>>, link_hash |-> NoHash]

\* RawHelper.get_parsing_candidate: the digest of the pair (url, html)
RawHelperGetParsingCandidate(url, html) ==
    [url |-> url, link_hash |-> [kind |-> "raw", url |-> url, html |-> html]]

\* URLHelper.get_parsing_candidate: the digest of the url alone
URLHelperGetParsingCandidate(url) ==
    [url |-> url, link_hash |-> [kind |-> "url", url |-> url, html |-> <<>>]]

(***************************************************************************)
(* What a call gives back.                                                 *)
(***************************************************************************)
NoStdout == [fmt |-> "", msg |-> None, url |-> <<>>]

Return(val) ==
    [raised |-> FALSE, exc |-> "", stdout |-> NoStdout, value |-> val,
     candidate |-> NoCandidate]

ReturnCandidate(c) ==
    [raised |-> FALSE, exc |-> "", stdout |-> NoStdout, value |-> NoneVal,
     candidate |-> c]

Raise(e, out) ==
    [raised |-> TRUE, exc |-> e, stdout |-> out, value |-> NoneVal,
     candidate |-> NoCandidate]

Result(s, r, c) == [self |-> s, ret |-> r, calls |-> c]

(***************************************************************************)
(* class Article                                                           *)
(***************************************************************************)
\* the constructor raised: there is no article
NoArticle ==
    [source_url |-> <<>>, url |-> <<>>, text |-> <<>>, html |-> <<>>,
     article_html |-> <<>>, is_parsed |-> FALSE, download_state |-> NOT_STARTED,
     download_exception_msg |-> None, link_hash |-> NoHash]

\* __init__ that derives the source url from the url even when one is given
ArticleInitRederives(url, source_url) ==
    LET scheme == IF GetScheme(url) = None THEN "http" ELSE GetScheme(url)
        src == <<scheme, "://">> \o GetDomain(url)
    IN  Result([source_url |-> src,
                url |-> PrepareUrl(url, src),
                text |-> <<>>,
                html |-> <<>>,
                article_html |-> <<>>,
                is_parsed |-> FALSE,
                download_state |-> NOT_STARTED,
                download_exception_msg |-> None,
                link_hash |-> NoHash],
               Return(NoneVal), <<>>)

\* Article.__init__; source_url is '' (the default), a str or None
ArticleInit(url, source_url) ==
    LET scheme == IF GetScheme(url) = None THEN "http" ELSE GetScheme(url)
        derived == IF source_url = Str(<<>>)
                   THEN Str(<<scheme, "://">> \o GetDomain(url))
                   ELSE source_url
        src == derived.v
    IN  IF derived.t = "NoneType" \/ derived.v = <<>>
        THEN Result(NoArticle, Raise("ArticleException", NoStdout), <<>>)
        ELSE Result([source_url |-> src,
                     url |-> PrepareUrl(url, src),
                     text |-> <<>>,
                     html |-> <<>>,
                     article_html |-> <<>>,
                     is_parsed |-> FALSE,
                     download_state |-> NOT_STARTED,
                     download_exception_msg |-> None,
                     link_hash |-> NoHash],
                    Return(NoneVal), <<>>)

\* set_text without the slice
SetTextUncut(self, text) ==
    Result(IF text.v # <<>> THEN [self EXCEPT !.text = text.v] ELSE self,
           Return(NoneVal), <<>>)

\* Article.set_text
SetText(self, text) ==
    LET t == Prefix(text.v, MAX_TEXT)
    IN  Result(IF t # <<>> THEN [self EXCEPT !.text = t] ELSE self,
               Return(NoneVal), <<>>)

\* set_html that stores the body and leaves download_state alone
SetHtmlKeepsState(self, html) ==
    IF Truthy(html)
    THEN IF html.t = "bytes"
         THEN Result([self EXCEPT !.html = ParserGetUnicodeHtml(html.v)],
                     Return(NoneVal), <<"Parser.get_unicode_html">>)
         ELSE Result([self EXCEPT !.html = html.v], Return(NoneVal), <<>>)
    ELSE Result(self, Return(NoneVal), <<>>)

\* set_html without the `if html:` guard
SetHtmlUnguarded(self, html) ==
    IF html.t = "bytes"
    THEN Result([self EXCEPT !.html = ParserGetUnicodeHtml(html.v),
                             !.download_state = SUCCESS],
                Return(NoneVal), <<"Parser.get_unicode_html">>)
    ELSE Result([self EXCEPT !.html = html.v,
                             !.download_state = SUCCESS],
                Return(NoneVal), <<>>)

\* set_html that starts a new content generation: is_parsed reset
SetHtmlResetsParsed(self, html) ==
    IF Truthy(html)
    THEN IF html.t = "bytes"
         THEN Result([self EXCEPT !.html = ParserGetUnicodeHtml(html.v),
                                  !.download_state = SUCCESS,
                                  !.is_parsed = FALSE],
                     Return(NoneVal), <<"Parser.get_unicode_html">>)
         ELSE Result([self EXCEPT !.html = html.v,
                                  !.download_state = SUCCESS,
                                  !.is_parsed = FALSE],
                     Return(NoneVal), <<>>)
    ELSE Result(self, Return(NoneVal), <<>>)

\* Article.set_html
SetHtml(self, html) ==
    IF Truthy(html)
    THEN IF html.t = "bytes"
         THEN Result([self EXCEPT !.html = ParserGetUnicodeHtml(html.v),
                                  !.download_state = SUCCESS],
                     Return(NoneVal), <<"Parser.get_unicode_html">>)
         ELSE Result([self EXCEPT !.html = html.v,
                                  !.download_state = SUCCESS],
                     Return(NoneVal), <<>>)
    ELSE Result(self, Return(NoneVal), <<>>)

\* set_article_html without the `if article_html:` guard
SetArticleHtmlUnguarded(self, article_html) ==
    Result([self EXCEPT !.article_html = article_html.v], Return(NoneVal), <<>>)

\* Article.set_article_html
SetArticleHtml(self, article_html) ==
    Result(IF Truthy(article_html)
           THEN [self EXCEPT !.article_html = article_html.v]
           ELSE self,
           Return(NoneVal), <<>>)

\* download without the `except RequestException` clause
DownloadUncaught(self, input_html, fetched) ==
    IF input_html.t = "NoneType"
    THEN IF ~fetched.ok
         THEN Result(self, Raise("RequestException", NoStdout),
                     <<"network.get_html_2XX_only">>)
         ELSE LET r == SetHtml(self, fetched.body)
              IN  Result(r.self, r.ret, <<"network.get_html_2XX_only">> \o r.calls)
    ELSE SetHtml(self, input_html)

\* download that clears the extracted text when the fetch fails
DownloadResetsOutputs(self, input_html, fetched) ==
    IF input_html.t = "NoneType"
    THEN IF ~fetched.ok
         THEN Result([self EXCEPT !.download_state = FAILED_RESPONSE,
                                  !.download_exception_msg = fetched.msg,
                                  !.text = <<>>],
                     Return(NoneVal), <<"network.get_html_2XX_only">>)
         ELSE LET r == SetHtml(self, fetched.body)
              IN  Result(r.self, r.ret, <<"network.get_html_2XX_only">> \o r.calls)
    ELSE SetHtml(self, input_html)

\* download that marks the article downloaded whenever the fetch returns
DownloadMarksSuccess(self, input_html, fetched) ==
    IF input_html.t = "NoneType"
    THEN IF ~fetched.ok
         THEN Result([self EXCEPT !.download_state = FAILED_RESPONSE,
                                  !.download_exception_msg = fetched.msg],
                     Return(NoneVal), <<"network.get_html_2XX_only">>)
         ELSE LET r == SetHtml(self, fetched.body)
              IN  Result([r.self EXCEPT !.download_state = SUCCESS], r.ret,
                         <<"network.get_html_2XX_only">> \o r.calls)
    ELSE SetHtml(self, input_html)

\* Article.download; fetched is what network.get_html_2XX_only does when it
\* is called: [ok, body, msg], a body or a RequestException with str(e) = msg
Download(self, input_html, fetched) ==
    IF input_html.t = "NoneType"
    THEN IF ~fetched.ok
         THEN Result([self EXCEPT !.download_state = FAILED_RESPONSE,
                                  !.download_exception_msg = fetched.msg],
                     Return(NoneVal), <<"network.get_html_2XX_only">>)
         ELSE LET r == SetHtml(self, fetched.body)
              IN  Result(r.self, r.ret, <<"network.get_html_2XX_only">> \o r.calls)
    ELSE SetHtml(self, input_html)

\* the guard without its FAILED_RESPONSE branch
ThrowOnlyIfNotStarted(self) ==
    IF self.download_state = NOT_STARTED
    THEN Raise("ArticleException",
               [fmt |-> "You must download() an article first!",
                msg |-> None, url |-> <<>>])
    ELSE Return(NoneVal)

\* Article.throw_if_not_downloaded_verbose: what it prints, and whether it
\* raises
ThrowIfNotDownloadedVerbose(self) ==
    IF self.download_state = NOT_STARTED
    THEN Raise("ArticleException",
               [fmt |-> "You must download() an article first!",
                msg |-> None, url |-> <<>>])
    ELSE IF self.download_state = FAILED_RESPONSE
    THEN Raise("ArticleException",
               [fmt |-> "Article download() failed with %s on URL %s",
                msg |-> self.download_exception_msg, url |-> self.url])
    ELSE Return(NoneVal)

\* get_parse_candidate that always takes the url-only path
GetParseCandidateUrlOnly(self) ==
    Result(self, ReturnCandidate(URLHelperGetParsingCandidate(self.url)),
           <<"URLHelper.get_parsing_candidate">>)

\* get_parse_candidate that branches on download_state instead of html
GetParseCandidateByState(self) ==
    IF self.download_state = SUCCESS
    THEN Result(self, ReturnCandidate(RawHelperGetParsingCandidate(self.url, self.html)),
                <<"RawHelper.get_parsing_candidate">>)
    ELSE Result(self, ReturnCandidate(URLHelperGetParsingCandidate(self.url)),
                <<"URLHelper.get_parsing_candidate">>)

\* Article.get_parse_candidate
GetParseCandidate(self) ==
    IF self.html # <<>>
    THEN Result(self, ReturnCandidate(RawHelperGetParsingCandidate(self.url, self.html)),
                <<"RawHelper.get_parsing_candidate">>)
    ELSE Result(self, ReturnCandidate(URLHelperGetParsingCandidate(self.url)),
                <<"URLHelper.get_parsing_candidate">>)

\* parse that records the link hash before it looks at the document
ParseHashesFirst(self) ==
    LET guard == ThrowIfNotDownloadedVerbose(self)
        doc == ParserFromstring(self.html)
        cand == GetParseCandidate(self)
        hashed == [self EXCEPT !.link_hash = cand.ret.candidate.link_hash]
        top_node == CalculateBestNode(DocumentCleanerClean(doc))
        upto_node == <<"Parser.fromstring">> \o cand.calls
                       \o <<"DocumentCleaner.clean",
                            "ContentExtractor.calculate_best_node">>
    IN  IF guard.raised THEN Result(self, guard, <<>>)
        ELSE IF doc = NoneVal
        THEN Result(hashed, Return(NoneVal), <<"Parser.fromstring">>)
        ELSE IF top_node = NoneVal
        THEN Result([hashed EXCEPT !.is_parsed = TRUE], Return(Str(<<>>)), upto_node)
        ELSE Result([hashed EXCEPT !.is_parsed = TRUE],
                    Return(Str(GetFormatted(PostCleanup(top_node)).text)),
                    upto_node \o <<"ContentExtractor.post_cleanup",
                                   "OutputFormatter.get_formatted">>)

\* parse that cleans the document before it computes the candidate
ParseCleansFirst(self) ==
    LET guard == ThrowIfNotDownloadedVerbose(self)
        doc == ParserFromstring(self.html)
        cand == GetParseCandidate(self)
        hashed == [self EXCEPT !.link_hash = cand.ret.candidate.link_hash]
        top_node == CalculateBestNode(DocumentCleanerClean(doc))
        upto_node == <<"Parser.fromstring", "DocumentCleaner.clean">> \o cand.calls
                       \o <<"ContentExtractor.calculate_best_node">>
    IN  IF guard.raised THEN Result(self, guard, <<>>)
        ELSE IF doc = NoneVal
        THEN Result(self, Return(NoneVal), <<"Parser.fromstring">>)
        ELSE IF top_node = NoneVal
        THEN Result([hashed EXCEPT !.is_parsed = TRUE], Return(Str(<<>>)), upto_node)
        ELSE Result([hashed EXCEPT !.is_parsed = TRUE],
                    Return(Str(GetFormatted(PostCleanup(top_node)).text)),
                    upto_node \o <<"ContentExtractor.post_cleanup",
                                   "OutputFormatter.get_formatted">>)

\* parse that marks the article parsed only when a node was selected
ParseMarksOnlyWithNode(self) ==
    LET guard == ThrowIfNotDownloadedVerbose(self)
        doc == ParserFromstring(self.html)
        cand == GetParseCandidate(self)
        hashed == [self EXCEPT !.link_hash = cand.ret.candidate.link_hash]
        top_node == CalculateBestNode(DocumentCleanerClean(doc))
        upto_node == <<"Parser.fromstring">> \o cand.calls
                       \o <<"DocumentCleaner.clean",
                            "ContentExtractor.calculate_best_node">>
    IN  IF guard.raised THEN Result(self, guard, <<>>)
        ELSE IF doc = NoneVal
        THEN Result(self, Return(NoneVal), <<"Parser.fromstring">>)
        ELSE IF top_node = NoneVal
        THEN Result(hashed, Return(Str(<<>>)), upto_node)
        ELSE Result([hashed EXCEPT !.is_parsed = TRUE],
                    Return(Str(GetFormatted(PostCleanup(top_node)).text)),
                    upto_node \o <<"ContentExtractor.post_cleanup",
                                   "OutputFormatter.get_formatted">>)

\* parse with an already-parsed guard
ParseOnce(self) ==
    LET guard == ThrowIfNotDownloadedVerbose(self)
        doc == ParserFromstring(self.html)
        cand == GetParseCandidate(self)
        hashed == [self EXCEPT !.link_hash = cand.ret.candidate.link_hash]
        top_node == CalculateBestNode(DocumentCleanerClean(doc))
        upto_node == <<"Parser.fromstring">> \o cand.calls
                       \o <<"DocumentCleaner.clean",
                            "ContentExtractor.calculate_best_node">>
    IN  IF guard.raised THEN Result(self, guard, <<>>)
        ELSE IF self.is_parsed THEN Result(self, Return(Str(self.text)), <<>>)
        ELSE IF doc = NoneVal
        THEN Result(self, Return(NoneVal), <<"Parser.fromstring">>)
        ELSE IF top_node = NoneVal
        THEN Result([hashed EXCEPT !.is_parsed = TRUE], Return(Str(<<>>)), upto_node)
        ELSE Result([hashed EXCEPT !.is_parsed = TRUE],
                    Return(Str(GetFormatted(PostCleanup(top_node)).text)),
                    upto_node \o <<"ContentExtractor.post_cleanup",
                                   "OutputFormatter.get_formatted">>)

\* parse that records the link hash once and keeps it
ParseKeepsFirstHash(self) ==
    LET guard == ThrowIfNotDownloadedVerbose(self)
        doc == ParserFromstring(self.html)
        cand == GetParseCandidate(self)
        hashed == IF self.link_hash = NoHash
                  THEN [self EXCEPT !.link_hash = cand.ret.candidate.link_hash]
                  ELSE self
        top_node == CalculateBestNode(DocumentCleanerClean(doc))
        upto_node == <<"Parser.fromstring">> \o cand.calls
                       \o <<"DocumentCleaner.clean",
                            "ContentExtractor.calculate_best_node">>
    IN  IF guard.raised THEN Result(self, guard, <<>>)
        ELSE IF doc = NoneVal
        THEN Result(self, Return(NoneVal), <<"Parser.fromstring">>)
        ELSE IF top_node = NoneVal
        THEN Result([hashed EXCEPT !.is_parsed = TRUE], Return(Str(<<>>)), upto_node)
        ELSE Result([hashed EXCEPT !.is_parsed = TRUE],
                    Return(Str(GetFormatted(PostCleanup(top_node)).text)),
                    upto_node \o <<"ContentExtractor.post_cleanup",
                                   "OutputFormatter.get_formatted">>)

\* Article.parse
Parse(self) ==
    LET guard == ThrowIfNotDownloadedVerbose(self)
        doc == ParserFromstring(self.html)
        cand == GetParseCandidate(self)
        hashed == [self EXCEPT !.link_hash = cand.ret.candidate.link_hash]
        cleaned == DocumentCleanerClean(doc)
        top_node == CalculateBestNode(cleaned)
        formatted == GetFormatted(PostCleanup(top_node))
        upto_node == <<"Parser.fromstring">> \o cand.calls
                       \o <<"DocumentCleaner.clean",
                            "ContentExtractor.calculate_best_node">>
    IN  IF guard.raised THEN Result(self, guard, <<>>)
        ELSE IF doc = NoneVal
        THEN Result(self, Return(NoneVal), <<"Parser.fromstring">>)
        ELSE IF top_node = NoneVal
        THEN Result([hashed EXCEPT !.is_parsed = TRUE], Return(Str(<<>>)), upto_node)
        ELSE Result([hashed EXCEPT !.is_parsed = TRUE],
                    Return(Str(formatted.text)),
                    upto_node \o <<"ContentExtractor.post_cleanup",
                                   "OutputFormatter.get_formatted">>)

(***************************************************************************)
(* The callers' inputs and the network's answers.                          *)
(***************************************************************************)
Urls == {<<"http", "://", "a.com", "/1">>, <<"https", "://", "b.org", "/2">>}

\* the second article's url
OtherUrl == <<"http", "://", "a.com", "/1">>

\* urls handed to the constructor: absolute ones, "a.com/1" without a
\* scheme, a path, the empty string
UrlInputs ==
    Urls \cup {<<"a.com", "/1">>, <<"/1">>, <<>>}

\* source_url handed to the constructor: the default '', an origin, None
SourceUrlInputs == {Str(<<>>), Str(<<"http", "://", "c.net">>), NoneVal}

Msgs == {"timed out", "404 Client Error"}

StrBodies == {Str(s) : s \in SeqsUpTo(Char, MaxLen)}

BytesBodies == {Bytes(<<>>), Bytes(<<"78">>), Bytes(<<"3c", "78">>)}

\* None, '' and b'' are the falsy ones
HtmlInputs == {NoneVal} \cup StrBodies \cup BytesBodies

\* texts of up to MAX_TEXT characters, and texts one character longer
TextInputs ==
    {Str(s) : s \in SeqsUpTo({"x"}, MAX_TEXT)}
    \cup {Str(s \o <<"<">>) : s \in [1..MAX_TEXT -> {"x"}]}

ArticleHtmlInputs == {NoneVal, Str(<<>>), Str(<<"<", "x">>)}

\* network.get_html_2XX_only was not called
NoNet == [called |-> FALSE, ok |-> FALSE, body |-> NoneVal, msg |-> None]

\* it returned a body, or raised a requests.exceptions.RequestException
NetOutcomes ==
    {[called |-> TRUE, ok |-> TRUE, body |-> b, msg |-> None] :
        b \in StrBodies \cup BytesBodies}
    \cup {[called |-> TRUE, ok |-> FALSE, body |-> NoneVal, msg |-> m] : m \in Msgs}

(***************************************************************************)
(* The state: two articles, and the last call made (on which article,      *)
(* which method, its argument, the network's answer, what it gave back,    *)
(* the collaborator calls it made).                                        *)
(***************************************************************************)
\* Article(url1, source_url=source_url1) and Article(url2)
Constructed(url1, source_url1, url2) ==
    /\ article = ArticleInit(url1, source_url1).self
    /\ other = ArticleInit(url2, Str(<<>>)).self
    /\ ctor = [url |-> url1, source_url |-> source_url1,
               raised |-> ArticleInit(url1, source_url1).ret.raised]
    /\ target = "article"
    /\ op = "__init__"
    /\ arg = NoneVal
    /\ net = NoNet
    /\ ret = ArticleInit(url1, source_url1).ret
    /\ calls = <<>>

Init == Constructed(OtherUrl, Str(<<>>), OtherUrl)

InitPair == \E u \in Urls : Constructed(u, Str(<<>>), OtherUrl)

InitCtor ==
    \E url \in UrlInputs, source_url \in SourceUrlInputs :
        Constructed(url, source_url, OtherUrl)

\* a method is called on an article that exists
Call(who, name, a, n, r) ==
    /\ ~ctor.raised
    /\ UNCHANGED ctor
    /\ target' = who
    /\ op' = name
    /\ arg' = a
    /\ net' = n
    /\ ret' = r.ret
    /\ calls' = r.calls
    /\ IF who = "article"
       THEN article' = r.self /\ UNCHANGED other
       ELSE other' = r.self /\ UNCHANGED article

DoSetHtml(who, self) ==
    \E html \in HtmlInputs : Call(who, "set_html", html, NoNet, SetHtml(self, html))

DoGetParseCandidate(who, self) ==
    Call(who, "get_parse_candidate", NoneVal, NoNet, GetParseCandidate(self))

ArticleDownload ==
    \E input_html \in HtmlInputs :
        IF input_html.t = "NoneType"
        THEN \E fetched \in NetOutcomes :
                Call("article", "download", input_html, fetched,
                     Download(article, input_html, fetched))
        ELSE Call("article", "download", input_html, NoNet,
                  Download(article, input_html, NoNet))

ArticleParse == Call("article", "parse", NoneVal, NoNet, Parse(article))

ArticleGetParseCandidate == DoGetParseCandidate("article", article)

ArticleSetText ==
    \E text \in TextInputs :
        Call("article", "set_text", text, NoNet, SetText(article, text))

ArticleSetHtml == DoSetHtml("article", article)

ArticleSetArticleHtml ==
    \E article_html \in ArticleHtmlInputs :
        Call("article", "set_article_html", article_html, NoNet,
             SetArticleHtml(article, article_html))

OtherSetHtml == DoSetHtml("other", other)

OtherGetParseCandidate == DoGetParseCandidate("other", other)

\* one article and every method of it
Next ==
    \/ ArticleDownload
    \/ ArticleParse
    \/ ArticleGetParseCandidate
    \/ ArticleSetText
    \/ ArticleSetHtml
    \/ ArticleSetArticleHtml

Spec == Init /\ [][Next]_vars

\* two articles, and the methods that read or write url and html
NextPair ==
    \/ ArticleDownload
    \/ ArticleSetHtml
    \/ ArticleGetParseCandidate
    \/ OtherSetHtml
    \/ OtherGetParseCandidate

SpecPair == InitPair /\ [][NextPair]_vars

\* every way of constructing the article, then the methods that read or
\* write its url and html
NextCtor ==
    \/ ArticleSetHtml
    \/ ArticleGetParseCandidate

SpecCtor == InitCtor /\ [][NextCtor]_vars

(***************************************************************************)
(* Properties.                                                             *)
(***************************************************************************)
OnArticle(name) == target = "article" /\ op = name

\* parse() stopped right after the Parser built no document
ParseAborted == OnArticle("parse") /\ calls = <<"Parser.fromstring">>

\* parse() ran the Formatter on a selected node
ParseFormatted == OnArticle("parse") /\ "OutputFormatter.get_formatted" \in Range(calls)

\* C1: parse() raises exactly when download_state is not SUCCESS: on
\* NOT_STARTED the "must download first" error, on FAILED_RESPONSE the
\* "download failed" error carrying the recorded message and the url; a
\* raising parse() calls no collaborator and leaves every field as it was.
C1_ParseRaisesIffNotDownloaded ==
    [][OnArticle("parse")' =>
        /\ ret'.raised <=> article.download_state # SUCCESS
        /\ article.download_state = NOT_STARTED =>
              /\ ret'.exc = "ArticleException"
              /\ ret'.stdout = [fmt |-> "You must download() an article first!",
                                msg |-> None, url |-> <<>>]
        /\ article.download_state = FAILED_RESPONSE =>
              /\ ret'.exc = "ArticleException"
              /\ ret'.stdout = [fmt |-> "Article download() failed with %s on URL %s",
                                msg |-> article.download_exception_msg,
                                url |-> article.url]
        /\ ret'.raised => calls' = <<>> /\ article' = article
      ]_vars

\* a parse() that raised on an article whose download failed after an
\* earlier body had been stored
C1_Witness ==
    /\ OnArticle("parse")
    /\ ret.raised
    /\ article.download_state = FAILED_RESPONSE
    /\ article.html # <<>>

\* C2: download() without html, when the fetcher raises a network error,
\* returns normally, leaves download_state FAILED_RESPONSE with the error's
\* message recorded, and leaves html as it was.
C2_FailedDownloadIsSoft ==
    [][(OnArticle("download")' /\ net'.called /\ ~net'.ok) =>
        /\ ~ret'.raised
        /\ article'.download_state = FAILED_RESPONSE
        /\ article'.download_exception_msg = net'.msg
        /\ article'.html = article.html
      ]_vars

\* a failed download of an article that had been downloaded and parsed
C2_Witness ==
    /\ OnArticle("download")
    /\ net.called
    /\ ~net.ok
    /\ article.html # <<>>
    /\ article.is_parsed

\* what set_html stores for a body
Stored(body) == IF body.t = "bytes" THEN ParserGetUnicodeHtml(body.v) ELSE body.v

\* C3: download(input_html=h) and set_html(h) with a non-empty h call no
\* fetcher, leave html equal to h (decoded when h is bytes) and
\* download_state SUCCESS, whatever h is, so that parse() then passes the
\* download guard.
C3_SuppliedBodySucceeds ==
    ((OnArticle("download") \/ OnArticle("set_html")) /\ Truthy(arg)) =>
        /\ ~net.called
        /\ "network.get_html_2XX_only" \notin Range(calls)
        /\ article.html = Stored(arg)
        /\ article.download_state = SUCCESS
        /\ ~Parse(article).ret.raised

\* bytes that are no document, supplied to download() after a failed download
C3_Witness ==
    /\ OnArticle("download")
    /\ arg.t = "bytes"
    /\ Truthy(arg)
    /\ article.download_exception_msg # None
    /\ ParserFromstring(article.html) = NoneVal

\* the call handed set_html a falsy body: set_html itself, download() with a
\* falsy input_html, or download() whose fetcher returned a falsy body
FalsyBody ==
    \/ OnArticle("set_html") /\ ~Truthy(arg)
    \/ OnArticle("download") /\ arg.t # "NoneType" /\ ~Truthy(arg)
    \/ OnArticle("download") /\ arg.t = "NoneType" /\ net.ok /\ ~Truthy(net.body)

\* C4: set_html with a falsy body changes nothing (html, download state,
\* failure message, is_parsed, text, article_html), in every state, and so
\* does download() when the supplied or fetched body is empty.
C4_FalsyBodyIsNoOp ==
    [][FalsyBody' => article' = article]_vars

\* an empty fetched body on an article whose download had failed
C4_Witness ==
    /\ FalsyBody
    /\ net.called
    /\ article.download_state = FAILED_RESPONSE

\* C5 as stated: whenever parse() is called on a downloaded article and the
\* Parser builds no document, it returns None without raising, runs no later
\* stage, is_parsed is false after the call, and a second call gives the
\* same result and state.
C5_AbortLeavesUnparsed ==
    ParseAborted =>
        /\ ret = Return(NoneVal)
        /\ ~article.is_parsed
        /\ Parse(article) = Result(article, ret, calls)

\* C5 amended: whenever parse() is called on a downloaded article and the
\* Parser builds no document, it returns None without raising, runs no stage
\* after the Parser, leaves is_parsed (and every other field) as it was
\* before the call, and a second call gives the same result and state.
C5_AbortChangesNothing ==
    [][(OnArticle("parse")'
          /\ article.download_state = SUCCESS
          /\ ParserFromstring(article.html) = NoneVal) =>
        /\ ret' = Return(NoneVal)
        /\ calls' = <<"Parser.fromstring">>
        /\ article' = article
        /\ Parse(article') = Result(article', ret', calls')
      ]_vars

\* an aborted parse() of an article that an earlier parse() had marked parsed
C5_Witness == ParseAborted /\ article.is_parsed

\* C6: is_parsed starts false, turns true only in a parse() call for which
\* the Parser built a document, after the stages of that call, and once true
\* no call makes it false again.
C6_ParsedIsMonotonic ==
    /\ ~article.is_parsed
    /\ [][/\ article.is_parsed => article'.is_parsed
          /\ (~article.is_parsed /\ article'.is_parsed) =>
                /\ OnArticle("parse")'
                /\ ~ret'.raised
                /\ ParserFromstring(article.html) # NoneVal
                /\ "ContentExtractor.calculate_best_node" \in Range(calls')
         ]_vars

\* a parsed article whose later download failed and whose parse() then raised
C6_Witness ==
    /\ article.is_parsed
    /\ OnArticle("parse")
    /\ ret.raised

\* what the Formatter returned in the parse() of the article's html
Formatted(self) ==
    GetFormatted(PostCleanup(CalculateBestNode(
        DocumentCleanerClean(ParserFromstring(self.html)))))

\* C7: after a parse() in which a node was selected and formatted, the
\* stored text is the formatted text cut to MAX_TEXT and the stored
\* article_html is the node's html, each unless it is empty.
C7_ParseStoresOutputs ==
    ParseFormatted =>
        LET text == Prefix(Formatted(article).text, MAX_TEXT)
            article_html == Formatted(article).article_html
        IN  /\ text # <<>> => article.text = text
            /\ article_html # <<>> => article.article_html = article_html

\* C8: the text parse() returns after selecting a node is at most MAX_TEXT
\* long, whatever the Formatter produced, and is_parsed is true.
C8_ReturnedTextIsCapped ==
    ParseFormatted =>
        /\ Len(ret.value.v) <= MAX_TEXT
        /\ article.is_parsed

LinkHashOf(self) == GetParseCandidate(self).ret.candidate.link_hash

\* C9: two articles with the same url and html get equal link hashes from
\* get_parse_candidate(), whatever else differs between them, and two with
\* the same url and different non-empty html get different ones.
C9_LinkHashIsContentAddressed ==
    /\ (article.url = other.url /\ article.html = other.html) =>
          LinkHashOf(article) = LinkHashOf(other)
    /\ (article.url = other.url /\ article.html # other.html
          /\ article.html # <<>> /\ other.html # <<>>) =>
          LinkHashOf(article) # LinkHashOf(other)

\* get_parse_candidate() called on the second article, which has the first
\* one's url and another body, the first one's download having failed since
C9_Witness ==
    /\ target = "other"
    /\ op = "get_parse_candidate"
    /\ article.url = other.url
    /\ article.html # <<>>
    /\ other.html # <<>>
    /\ article.html # other.html
    /\ article.download_state = FAILED_RESPONSE

\* C10: get_parse_candidate() raises in no state and changes no field; its
\* hash is the digest of the url alone exactly when html is empty and of
\* (url, html) exactly when html is non-empty.
C10_CandidateIsPureAndFollowsHtml ==
    /\ [](~GetParseCandidate(article).ret.raised)
    /\ [][OnArticle("get_parse_candidate")' =>
            /\ ~ret'.raised
            /\ article' = article
            /\ article.html = <<>> =>
                  ret'.candidate = URLHelperGetParsingCandidate(article.url)
            /\ article.html # <<>> =>
                  ret'.candidate = RawHelperGetParsingCandidate(article.url, article.html)
         ]_vars

\* get_parse_candidate() on a parsed article whose later download failed
C10_Witness ==
    /\ OnArticle("get_parse_candidate")
    /\ article.download_state = FAILED_RESPONSE
    /\ article.is_parsed
    /\ ret.candidate.link_hash.kind = "raw"

\* get_parse_candidate() before any download
C10_WitnessFresh ==
    /\ OnArticle("get_parse_candidate")
    /\ article.download_state = NOT_STARTED
    /\ ret.candidate.link_hash.kind = "url"

\* C11: set_text(t) stores exactly the first MAX_TEXT characters of t when
\* that prefix is non-empty, so the stored text is never longer than
\* MAX_TEXT; a text of MAX_TEXT + 1 characters is stored as MAX_TEXT
\* characters.
C11_SetTextStoresPrefix ==
    /\ [](Len(article.text) <= MAX_TEXT)
    /\ [][(OnArticle("set_text")' /\ Prefix(arg'.v, MAX_TEXT) # <<>>) =>
            /\ article'.text = Prefix(arg'.v, MAX_TEXT)
            /\ Len(arg'.v) >= MAX_TEXT => Len(article'.text) = MAX_TEXT
         ]_vars

\* set_text was handed a text longer than MAX_TEXT and stored its prefix
C11_Witness ==
    /\ OnArticle("set_text")
    /\ Len(arg.v) = MAX_TEXT + 1
    /\ Len(article.text) = MAX_TEXT
    /\ article.text # arg.v

\* C12: set_text('') and set_article_html('') leave the stored values as
\* they were, and text (article_html) once non-empty is non-empty after
\* every later set_text, set_article_html, set_html, download and parse.
C12_OutputsAreSetOnceTruthy ==
    [][/\ (OnArticle("set_text")' /\ arg'.v = <<>>) => article' = article
       /\ (OnArticle("set_article_html")' /\ ~Truthy(arg')) => article' = article
       /\ article.text # <<>> => article'.text # <<>>
       /\ article.article_html # <<>> => article'.article_html # <<>>
      ]_vars

\* set_article_html('') on an article whose text and article_html are set
C12_Witness ==
    /\ OnArticle("set_article_html")
    /\ arg = Str(<<>>)
    /\ article.text # <<>>
    /\ article.article_html # <<>>

\* the scheme the constructor uses for a url
SchemeOf(url) == IF GetScheme(url) = None THEN "http" ELSE GetScheme(url)

\* C13: with source_url '' the constructor sets source_url to
\* scheme + "://" + domain of url, the scheme being "http" when url has
\* none; a non-empty source_url is stored as given; url is resolved against
\* the source_url so obtained.  Neither changes afterwards.
C13_SourceUrlResolution ==
    ~ctor.raised =>
        /\ ctor.source_url = Str(<<>>) =>
              article.source_url = <<SchemeOf(ctor.url), "://">> \o GetDomain(ctor.url)
        /\ Truthy(ctor.source_url) => article.source_url = ctor.source_url.v
        /\ article.url = PrepareUrl(ctor.url, article.source_url)

\* Article("a.com/1") just constructed: no scheme in the url, "http" used
C13_Witness ==
    /\ op = "__init__"
    /\ ~ctor.raised
    /\ ctor.source_url = Str(<<>>)
    /\ GetScheme(ctor.url) = None
    /\ ctor.url # <<>>
    /\ Head(article.source_url) = "http"

\* an origin pinned by the caller, the url being on another domain
C13_WitnessPinned ==
    /\ op = "__init__"
    /\ ~ctor.raised
    /\ Truthy(ctor.source_url)
    /\ GetDomain(ctor.url) # <<>>
    /\ article.source_url # <<SchemeOf(ctor.url), "://">> \o GetDomain(ctor.url)

\* C14: constructing with source_url '' and a url whose domain is empty
\* raises and creates no article, so every constructed article has a
\* non-empty source_url.
C14_EmptyDomainIsRejected ==
    /\ (ctor.source_url = Str(<<>>) /\ GetDomain(ctor.url) = <<>>) =>
          (ctor.raised /\ article = NoArticle)
    /\ ~ctor.raised => article.source_url # <<>>

\* C15: download() and set_html(), whatever the body or the network's
\* answer, change nothing but html, download_state and
\* download_exception_msg: url, source_url, is_parsed, text, article_html
\* and link_hash are as before.
C15_DownloadFrame ==
    [][(OnArticle("download")' \/ OnArticle("set_html")') =>
        article' = [article EXCEPT
                      !.html = article'.html,
                      !.download_state = article'.download_state,
                      !.download_exception_msg = article'.download_exception_msg]
      ]_vars

\* a failed download of an article with text, article_html, a link hash and
\* the parsed flag set
C15_Witness ==
    /\ OnArticle("download")
    /\ net.called
    /\ ~net.ok
    /\ article.text # <<>>
    /\ article.article_html # <<>>
    /\ article.link_hash # NoHash
    /\ article.is_parsed

\* s is the first Len(s) elements of t
IsPrefix(s, t) == Len(s) <= Len(t) /\ s = SubSeq(t, 1, Len(s))

\* the collaborator calls of a parse() that runs to its end, the candidate
\* being computed by helper
FullPipeline(helper) ==
    <<"Parser.fromstring", helper, "DocumentCleaner.clean",
      "ContentExtractor.calculate_best_node", "ContentExtractor.post_cleanup",
      "OutputFormatter.get_formatted">>

\* C16: the collaborator calls of one parse() are, in this order, the
\* Parser's build, the candidate, clean, calculate_best_node and then
\* post_cleanup and get_formatted; the last two are made exactly when a node
\* was selected, none after the build when no document was built, and
\* is_parsed turns true only in a call that made the first four.
C16_PipelineOrder ==
    [][OnArticle("parse")' =>
        LET doc == ParserFromstring(article.html)
            node == CalculateBestNode(DocumentCleanerClean(doc))
        IN  /\ \E helper \in {"RawHelper.get_parsing_candidate",
                              "URLHelper.get_parsing_candidate"} :
                  IsPrefix(calls', FullPipeline(helper))
            /\ (~ret'.raised /\ doc = NoneVal) => Len(calls') = 1
            /\ (~ret'.raised /\ doc # NoneVal /\ node = NoneVal) => Len(calls') = 4
            /\ (~ret'.raised /\ doc # NoneVal /\ node # NoneVal) => Len(calls') = 6
            /\ (~article.is_parsed /\ article'.is_parsed) => Len(calls') >= 4
      ]_vars

\* a parse() that ran the whole pipeline
C16_Witness ==
    /\ OnArticle("parse")
    /\ calls = FullPipeline("RawHelper.get_parsing_candidate")

\* C17: when parse() builds a document and no node is selected it returns
\* '', leaves text and article_html as they were and sets is_parsed; so a
\* parsed article may hold no content.
C17_NoNodeStillParsed ==
    [][(OnArticle("parse")'
          /\ article.download_state = SUCCESS
          /\ ParserFromstring(article.html) # NoneVal
          /\ CalculateBestNode(DocumentCleanerClean(ParserFromstring(article.html)))
               = NoneVal) =>
        /\ ret' = Return(Str(<<>>))
        /\ article'.text = article.text
        /\ article'.article_html = article.article_html
        /\ article'.is_parsed
      ]_vars

\* a parsed article without any content
C17_Witness ==
    /\ OnArticle("parse")
    /\ Len(calls) = 4
    /\ article.is_parsed
    /\ article.text = <<>>
    /\ article.article_html = <<>>

\* C18: parse() on a parsed, downloaded article calls the Parser again, and
\* a parse() that directly follows a parse() of the same parsed article
\* makes the same collaborator calls, returns the same value and leaves the
\* article as the first did.
C18_ReparseRunsAgain ==
    [][(OnArticle("parse")' /\ article.is_parsed
          /\ article.download_state = SUCCESS) =>
        /\ calls' # <<>>
        /\ Head(calls') = "Parser.fromstring"
        /\ ParserFromstring(article.html) # NoneVal => Len(calls') >= 4
        /\ OnArticle("parse") =>
              (calls' = calls /\ ret' = ret /\ article' = article)
      ]_vars

\* a parse() that ran the whole pipeline on a parsed article and that a
\* further parse() repeats, call for call
C18_Witness ==
    /\ OnArticle("parse")
    /\ article.is_parsed
    /\ Len(calls) = 6
    /\ Parse(article) = Result(article, ret, calls)
    /\ article.link_hash = LinkHashOf(article)

\* parse() got past the construction of the document
ParseBuilt == OnArticle("parse") /\ Len(calls) >= 4

\* C19 as stated: the link hash is absent on a new article and after any
\* parse() that raised or aborted without a document, and right after a
\* parse() that built a document it is get_parse_candidate()'s hash.
C19_HashAbsentAfterFailedParse ==
    /\ op = "__init__" => article.link_hash = NoHash
    /\ (OnArticle("parse") /\ (ret.raised \/ ParseAborted)) =>
          article.link_hash = NoHash
    /\ ParseBuilt => article.link_hash = LinkHashOf(article)

\* C19 amended: the link hash is absent on a new article, is written only
\* by a parse() that got past the construction of the document, is left as
\* it was (absent, or the hash an earlier parse() recorded) by a parse()
\* that raised or aborted, and right after a parse() that built a document
\* it is get_parse_candidate()'s hash for the article's url and html.
C19_HashWrittenOnlyByBuiltParse ==
    /\ article.link_hash = NoHash
    /\ [][/\ article'.link_hash # article.link_hash => ParseBuilt'
          /\ (OnArticle("parse")' /\ (ret'.raised \/ ParseAborted')) =>
                article'.link_hash = article.link_hash
          /\ ParseBuilt' => article'.link_hash = LinkHashOf(article')
         ]_vars

\* a parse() that raised on an article that holds an earlier parse()'s hash,
\* which is no longer the hash of its html
C19_Witness ==
    /\ OnArticle("parse")
    /\ ret.raised
    /\ article.link_hash # NoHash
    /\ article.link_hash # LinkHashOf(article)

\* C20: download_state SUCCESS implies a non-empty html, so a parse() that
\* passes the download guard and computes a candidate takes the (url, html)
\* path, never the url-only one; html can be non-empty without
\* download_state being SUCCESS.
C20_SuccessImpliesHtml ==
    /\ article.download_state = SUCCESS => article.html # <<>>
    /\ OnArticle("parse") =>
          "URLHelper.get_parsing_candidate" \notin Range(calls)
    /\ ParseBuilt => article.link_hash.kind = "raw"

\* a parse() that took the (url, html) path, and then a failed download:
\* the html is still there
C20_Witness ==
    /\ article.link_hash.kind = "raw"
    /\ article.html # <<>>
    /\ article.download_state = FAILED_RESPONSE

====
